---- MODULE Spec2Model ----
(***************************************************************************)
(* A model of copyright-hook: the year pattern (years_pattern.py), the     *)
(* header decision procedure update_file (copyright.py), the change set    *)
(* and the replay of the commit log (git_utilities.py, copyright.py) and   *)
(* the per-file loop of run_copyright_updater.                             *)
(*                                                                         *)
(* Texts are sequences of one-character strings.  Offsets are Python's:    *)
(* 0-based, spans half-open.                                               *)
(***************************************************************************)
EXTENDS Integers, Sequences, FiniteSets, TLC

VARIABLES
    pc,            \* position of the modelled call
    content,       \* update_file: the text given to the first call
    pattern,       \* update_file: the compiled YearsPattern
    last_year,     \* update_file: last_year argument
    current_year,  \* update_file: current_year argument
    required,      \* update_file: required argument
    result1,       \* update_file: what the first call returned
    result2,       \* update_file: what the call on the first call's content returned
    given_range,   \* YearsPattern.replace: new_range argument
    replaced,      \* YearsPattern.replace: what the call returned or raised
    items,         \* GitChangeSet: the change records given to the constructor
    changes,       \* GitChangeSet: the constructed change set
    commits,       \* compute_last_modified_dict: the commits, newest first
    replayed,      \* compute_last_modified_dict: commits the loop has been through
    last_modified_dict,  \* compute_last_modified_dict: the dictionary being built
    args,          \* run_copyright_updater: the parsed command line
    repo,          \* run_copyright_updater: what git reports of the repository
    config,        \* run_copyright_updater: the configuration file, as CopyrightConfig loads it
    now,           \* run_copyright_updater: the `now` argument
    fs,            \* the files of the working tree
    io,            \* the reads, writes and printed diagnostics so far, in order
    files,         \* run_copyright_updater: the validated, relative paths
    file_index,    \* run_copyright_updater: files the loop has been through
    last_repo_modification_datetime,
    success,       \* run_copyright_updater: no diagnostic so far
    result         \* run_copyright_updater: the value returned or the exception raised

updateVars == <<content, pattern, last_year, current_year, required, result1, result2,
                given_range, replaced>>
changeSetVars == <<items, changes>>
historyVars == <<commits, replayed, last_modified_dict>>

worldVars == <<args, repo, config, now>>
runVars == <<fs, io, files, file_index, last_repo_modification_datetime, success, result>>

vars == <<pc, updateVars, changeSetVars, historyVars, worldVars, runVars>>

----------------------------------------------------------------------------
(* Bounds *)

\* longest text given to update_file
MaxLen == 4
\* most change records given to one GitChangeSet
MaxItems == 2
\* most commits in the log given to compute_last_modified_dict
MaxCommits == 3
\* most change records in that log, all commits together
MaxRecords == 4
\* most files on the command line of run_copyright_updater
MaxFiles == 2
\* most commits `git log` lists to run_copyright_updater
MaxLog == 2

----------------------------------------------------------------------------
(* Characters *)

\* \d and \s
Digits == {"0", "1", "2", "3", "4", "5", "6", "7", "8", "9"}
Spaces == {" "}
\* the characters the texts given to update_file are made of
Alphabet == {"1", "2", " ", "-", "c"}

\* content[a:b]
Slice(s, a, b) == SubSeq(s, a + 1, b)

\* the end of the longest run of characters of `class` that starts at offset i
RECURSIVE RunEnd(_, _, _)
RunEnd(s, i, class) ==
    IF i < Len(s) /\ s[i + 1] \in class THEN RunEnd(s, i + 1, class) ELSE i

\* the literal `lit` stands in s at offset i
LiteralAt(s, i, lit) ==
    /\ i + Len(lit) <= Len(s)
    /\ Slice(s, i, i + Len(lit)) = lit

----------------------------------------------------------------------------
(* years_pattern.py *)

placeholder == "{years}"

\* YearsPattern.__init__: the template split at its first placeholder
YearsPattern(template) ==
    LET p_start == CHOOSE i \in 1..Len(template) :
                      /\ template[i] = placeholder
                      /\ \A j \in 1..(i - 1) : template[j] # placeholder
    IN  [prefix |-> SubSeq(template, 1, p_start - 1),
         suffix |-> SubSeq(template, p_start + 1, Len(template))]

\* LET x == e IN F(x), with e evaluated once
With(e, F(_)) == CHOOSE r \in {F(x) : x \in {e}} : TRUE

\* the longest end t in (d, t0] of a group of digits that the suffix follows
\* directly, or -1
RECURSIVE ShorterDigits(_, _, _, _)
ShorterDigits(regexp, s, d, t0) ==
    IF t0 <= d THEN -1
    ELSE IF LiteralAt(s, t0, regexp.suffix) THEN t0
    ELSE ShorterDigits(regexp, s, d, t0 - 1)

\* (\d+)\s*<suffix> with the digits starting at d: the end of the group the
\* backtracking search settles on (longest first), or -1.  A shorter group is
\* followed by a digit, so \s* is empty there.
DigitsThenSuffix(regexp, s, d) ==
    With(RunEnd(s, d, Digits), LAMBDA dmax :
        IF dmax <= d THEN -1
        ELSE IF \E w \in dmax..RunEnd(s, dmax, Spaces) : LiteralAt(s, w, regexp.suffix)
           THEN dmax
        ELSE ShorterDigits(regexp, s, d, dmax - 1))

NoMatch == [found |-> FALSE]

\* (?P<from>\d+)\s*-\s*(?P<to>\d+)\s*<suffix> with `from` spanning [q, fe)
RangeAt(regexp, s, q, fe) ==
    With(RunEnd(s, fe, Spaces), LAMBDA r :
        IF ~(fe > q /\ r < Len(s) /\ s[r + 1] = "-") THEN NoMatch
        ELSE With(RunEnd(s, r + 1, Spaces), LAMBDA u :
             With(DigitsThenSuffix(regexp, s, u), LAMBDA te :
                 IF te = -1 THEN NoMatch
                 ELSE [found |-> TRUE, range |-> TRUE,
                       from_start |-> q, from_end |-> fe,
                       to_start |-> u, to_end |-> te])))

\* (?P<year>\d+)\s*<suffix> with the digits starting at q
SingleAt(regexp, s, q) ==
    With(DigitsThenSuffix(regexp, s, q), LAMBDA ye :
        IF ye = -1 THEN NoMatch
        ELSE [found |-> TRUE, range |-> FALSE, start |-> q, end |-> ye])

\* regexp.match anchored at offset i: the range alternative first, then the
\* single year
MatchAt(regexp, s, i) ==
    IF ~LiteralAt(s, i, regexp.prefix) THEN NoMatch
    ELSE With(RunEnd(s, i + Len(regexp.prefix), Spaces), LAMBDA q :
         With(RangeAt(regexp, s, q, RunEnd(s, q, Digits)), LAMBDA m :
             IF m.found THEN m ELSE SingleAt(regexp, s, q)))

\* the leftmost match that starts at offset i or later
RECURSIVE search_from(_, _, _)
search_from(regexp, s, i) ==
    IF i > Len(s) THEN NoMatch
    ELSE With(MatchAt(regexp, s, i), LAMBDA m :
             IF m.found THEN m ELSE search_from(regexp, s, i + 1))

\* regexp.search
search(regexp, s) == search_from(regexp, s, 0)

None == [kind |-> "None"]
YearStr(y) == [kind |-> "str", year |-> y]
YearTuple(f, t) == [kind |-> "tuple", from |-> f, to |-> t]

\* YearsPattern.extract
extract(regexp, s) ==
    With(search(regexp, s), LAMBDA m :
        IF ~m.found THEN None
        ELSE IF m.range
           THEN YearTuple(Slice(s, m.from_start, m.from_end),
                          Slice(s, m.to_start, m.to_end))
        ELSE YearStr(Slice(s, m.start, m.end)))

\* "-".join(new_range)
Join(new_range) == new_range.from \o <<"-">> \o new_range.to

\* content[a:b] with the ends clipped to the text, as Python slices are
Clipped(s, a, b) ==
    Slice(s, IF a > Len(s) THEN Len(s) ELSE a, IF b > Len(s) THEN Len(s) ELSE b)

\* a slip: the first span is rewritten, then the second at its old offsets
replace_one_span_at_a_time(regexp, s, new_range) ==
    With(search(regexp, s), LAMBDA m :
        IF m.range /\ new_range.kind = "tuple"
           THEN With(Slice(s, 0, m.from_start) \o new_range.from \o Slice(s, m.from_end, Len(s)),
                     LAMBDA t : Clipped(t, 0, m.to_start) \o new_range.to
                                \o Clipped(t, m.to_end, Len(t)))
        ELSE IF m.range
           THEN Slice(s, 0, m.from_start) \o new_range.year \o Slice(s, m.to_end, Len(s))
        ELSE Slice(s, 0, m.start)
             \o (IF new_range.kind = "tuple" THEN Join(new_range) ELSE new_range.year)
             \o Slice(s, m.end, Len(s)))

\* YearsPattern.replace on a text the pattern matches
replace(regexp, s, new_range) ==
    With(search(regexp, s), LAMBDA m :
        IF m.range
           THEN IF new_range.kind = "tuple"
                   THEN Slice(s, 0, m.from_start) \o new_range.from
                        \o Slice(s, m.from_end, m.to_start) \o new_range.to
                        \o Slice(s, m.to_end, Len(s))
                   ELSE Slice(s, 0, m.from_start) \o new_range.year
                        \o Slice(s, m.to_end, Len(s))
        ELSE Slice(s, 0, m.start)
             \o (IF new_range.kind = "tuple" THEN Join(new_range) ELSE new_range.year)
             \o Slice(s, m.end, Len(s)))

----------------------------------------------------------------------------
(* copyright.py: update_file *)

NO_COPYRIGHT_HEADER_FOUND == [kind |-> "no copyright comment found"]
RANGE_USED_FOR_A_SINGLE_YEAR == [kind |-> "range syntax is used for a single year"]
\* f"expected year {last_year}, actual is {years}"
ExpectedActual(last, actual) ==
    [kind |-> "expected year, actual is", expected |-> last, actual |-> actual]

Returned(error_comment, text) == [error_comment |-> error_comment, content |-> text]

\* a slip: `required` is not consulted
update_missing_always_reported(text, req) ==
    Returned(NO_COPYRIGHT_HEADER_FOUND, text)

\* update_file, years is None
update_missing(text, req) ==
    IF req THEN Returned(NO_COPYRIGHT_HEADER_FOUND, text)
    ELSE Returned(None, text)

\* a slip: the expected year is compared with the lower bound
update_range_compares_from(text, last, regexp, current, years) ==
    IF years.from = years.to
       THEN IF years.from = current
               THEN Returned(RANGE_USED_FOR_A_SINGLE_YEAR,
                             replace(regexp, text, YearStr(current)))
            ELSE Returned(RANGE_USED_FOR_A_SINGLE_YEAR,
                          replace(regexp, text, YearTuple(years.from, current)))
    ELSE IF last = years.from
       THEN Returned(None, text)
    ELSE Returned(ExpectedActual(last, years.to),
                  replace(regexp, text, YearTuple(years.from, current)))

\* a slip: the expected year is looked at before the degenerate range
update_range_expected_first(text, last, regexp, current, years) ==
    IF last = years.to
       THEN Returned(None, text)
    ELSE IF years.from = years.to
       THEN IF years.from = current
               THEN Returned(RANGE_USED_FOR_A_SINGLE_YEAR,
                             replace(regexp, text, YearStr(current)))
            ELSE Returned(RANGE_USED_FOR_A_SINGLE_YEAR,
                          replace(regexp, text, YearTuple(years.from, current)))
    ELSE Returned(ExpectedActual(last, years.to),
                  replace(regexp, text, YearTuple(years.from, current)))

\* update_file, years is a tuple
update_range(text, last, regexp, current, years) ==
    IF years.from = years.to
       THEN IF years.from = current
               THEN Returned(RANGE_USED_FOR_A_SINGLE_YEAR,
                             replace(regexp, text, YearStr(current)))
            ELSE Returned(RANGE_USED_FOR_A_SINGLE_YEAR,
                          replace(regexp, text, YearTuple(years.from, current)))
    ELSE IF last = years.to
       THEN Returned(None, text)
    ELSE Returned(ExpectedActual(last, years.to),
                  replace(regexp, text, YearTuple(years.from, current)))

\* a slip: the bounds of the new range are swapped
update_single_swapped(text, last, regexp, current, years) ==
    IF years.year = last
       THEN Returned(None, text)
    ELSE Returned(ExpectedActual(last, years.year),
                  replace(regexp, text, YearTuple(current, years.year)))

\* a slip: the new range ends at the expected year
update_single_to_last(text, last, regexp, current, years) ==
    IF years.year = last
       THEN Returned(None, text)
    ELSE Returned(ExpectedActual(last, years.year),
                  replace(regexp, text, YearTuple(years.year, last)))

\* update_file, years is str
update_single(text, last, regexp, current, years) ==
    IF years.year = last
       THEN Returned(None, text)
    ELSE Returned(ExpectedActual(last, years.year),
                  replace(regexp, text, YearTuple(years.year, current)))

update_file(text, last, regexp, current, req) ==
    With(extract(regexp, text), LAMBDA years :
        IF years = None THEN update_missing(text, req)
        ELSE IF years.kind = "tuple"
           THEN update_range(text, last, regexp, current, years)
        ELSE update_single(text, last, regexp, current, years))

----------------------------------------------------------------------------
(* git_utilities.py: GitChangeSet *)

\* the codes of `git ... --name-status` the model draws from
ChangeTypes == {"M", "D", "C075", "R100", "R075"}

\* change_type.startswith("R")
startswith_R(change_type) == change_type \in {"R100", "R075"}

\* change_type, *extra_files, dst = item
change_type_of(item) == item[1]
extra_files_of(item) == SubSeq(item, 2, Len(item) - 1)
dst_of(item) == item[Len(item)]

\* GitChangeSet([])
NoChanges ==
    [items |-> <<>>, changed_files |-> {}, moved_files |-> <<>>, touched_files |-> {}]

\* a slip: every rename counts as a change
add_item_rename_changes(cs, item) ==
    LET change_type == change_type_of(item)
        dst == dst_of(item)
    IN  IF startswith_R(change_type)
           THEN [cs EXCEPT !.touched_files = @ \cup {dst},
                           !.changed_files = @ \cup {dst},
                           !.moved_files = Append(@, <<extra_files_of(item)[1], dst>>)]
           ELSE [cs EXCEPT !.touched_files = @ \cup {dst},
                           !.changed_files = @ \cup {dst}]

\* GitChangeSet.__post_init__, the body of the loop over the items
add_item(cs, item) ==
    LET change_type == change_type_of(item)
        dst == dst_of(item)
    IN  IF startswith_R(change_type)
           THEN [cs EXCEPT !.touched_files = @ \cup {dst},
                           !.changed_files = IF change_type # "R100" THEN @ \cup {dst} ELSE @,
                           !.moved_files = Append(@, <<extra_files_of(item)[1], dst>>)]
           ELSE [cs EXCEPT !.touched_files = @ \cup {dst},
                           !.changed_files = @ \cup {dst}]

RECURSIVE add_items(_, _)
add_items(cs, its) ==
    IF its = <<>> THEN cs ELSE add_items(add_item(cs, Head(its)), Tail(its))

\* GitChangeSet(items)
GitChangeSet(its) == add_items([NoChanges EXCEPT !.items = its], its)

\* GitChangeSet.__bool__
bool(cs) == cs.items # <<>>

\* GitCommitInfo(author_date, changes)
GitCommitInfo(author_date, cs) == [author_date |-> author_date, changes |-> cs]

----------------------------------------------------------------------------
(* copyright.py: compute_last_modified_dict *)

\* a datetime with a time zone: its year, and the day within the year
Datetime(y, d) == [kind |-> "datetime", year |-> y, day |-> d]

\* datetime.__lt__
lt(d1, d2) == d1.year < d2.year \/ (d1.year = d2.year /\ d1.day < d2.day)

\* {}
EmptyDict == [k \in {} |-> None]

\* last_modified_dict.get(key)
get(d, key) == IF key \in DOMAIN d THEN d[key] ELSE None

\* last_modified_dict[key] = value
setitem(d, key, value) ==
    [k \in DOMAIN d \cup {key} |-> IF k = key THEN value ELSE d[k]]

\* the loop over commit.changes.moved_files
RECURSIVE propagate_moves(_, _)
propagate_moves(d, moved_files) ==
    IF moved_files = <<>> THEN d
    ELSE LET src == Head(moved_files)[1]
             dst == Head(moved_files)[2]
         IN  propagate_moves(IF src \in DOMAIN d THEN setitem(d, dst, d[src]) ELSE d,
                             Tail(moved_files))

\* a slip: the destinations of the moves take the commit's date as well
overwrite_changed_and_moved(d, commit) ==
    LET written == commit.changes.changed_files
                      \cup {commit.changes.moved_files[k][2] :
                               k \in 1..Len(commit.changes.moved_files)}
    IN  [k \in DOMAIN d \cup written |->
            IF k \in written THEN commit.author_date ELSE d[k]]

\* the loop over commit.changes.changed_files
overwrite_changed(d, commit) ==
    [k \in DOMAIN d \cup commit.changes.changed_files |->
        IF k \in commit.changes.changed_files THEN commit.author_date ELSE d[k]]

\* the body of the loop over the commits
replay_commit(d, commit) ==
    overwrite_changed(propagate_moves(d, commit.changes.moved_files), commit)

\* a slip: the commits are gone through as given, newest first
nth_reversed_as_given(cms, n) == cms[n]

\* reversed(commits): the n-th commit the loop goes through
nth_reversed(cms, n) == cms[Len(cms) + 1 - n]

RECURSIVE replay_first(_, _)
\* the dictionary after the loop has been through n commits
replay_first(cms, n) ==
    IF n = 0 THEN EmptyDict
    ELSE replay_commit(replay_first(cms, n - 1), nth_reversed(cms, n))

compute_last_modified_dict(cms) == replay_first(cms, Len(cms))

----------------------------------------------------------------------------
(* update_file called on a text, then on the text it returned *)

\* the templates the pattern is compiled from
Templates == { <<"c", placeholder>>, <<placeholder>>, <<placeholder, "c">> }

\* str(datetime.year): a decimal numeral without leading zeros
YearStrings == { <<"1">>, <<"1", "2">> }

NotCalled == [error_comment |-> None, content |-> <<>>]

\* the variables of the other calls, at rest
UpdateIdle ==
    /\ content = <<>> /\ pattern = YearsPattern(<<placeholder>>)
    /\ last_year = <<>> /\ current_year = <<>> /\ required = FALSE
    /\ result1 = NotCalled /\ result2 = NotCalled
    /\ given_range = None /\ replaced = None

ChangeSetIdle == items = <<>> /\ changes = NoChanges

HistoryIdle == commits = <<>> /\ replayed = 0 /\ last_modified_dict = EmptyDict

RunIdle ==
    /\ args = None /\ repo = None /\ config = None /\ now = None
    /\ fs = EmptyDict /\ io = <<>> /\ files = <<>> /\ file_index = 0
    /\ last_repo_modification_datetime = None
    /\ success = TRUE /\ result = None

InitUpdate ==
    /\ pc = "text"
    /\ content = <<>>
    /\ pattern \in {YearsPattern(t) : t \in Templates}
    /\ last_year \in YearStrings
    /\ current_year \in YearStrings
    /\ required = FALSE
    /\ result1 = NotCalled
    /\ result2 = NotCalled
    /\ given_range = None /\ replaced = None
    /\ ChangeSetIdle /\ HistoryIdle /\ RunIdle

\* the caller's text grows by one character
TypeChar ==
    /\ pc = "text"
    /\ Len(content) < MaxLen
    /\ \E ch \in Alphabet : content' = Append(content, ch)
    /\ UNCHANGED <<pc, pattern, last_year, current_year, required, result1, result2,
                   given_range, replaced, changeSetVars, historyVars, worldVars, runVars>>

\* update_file(content, last_year, pattern, current_year, required)
CallUpdate ==
    /\ pc = "text"
    /\ \E req \in BOOLEAN :
          /\ required' = req
          /\ result1' = update_file(content, last_year, pattern, current_year, req)
    /\ pc' = "once"
    /\ UNCHANGED <<content, pattern, last_year, current_year, result2,
                   given_range, replaced, changeSetVars, historyVars, worldVars, runVars>>

\* update_file on the content the first call returned, same arguments
CallUpdateAgain ==
    /\ pc = "once"
    /\ result2' = update_file(result1.content, last_year, pattern, current_year, required)
    /\ pc' = "twice"
    /\ UNCHANGED <<content, pattern, last_year, current_year, required, result1,
                   given_range, replaced, changeSetVars, historyVars, worldVars, runVars>>

NextUpdate == TypeChar \/ CallUpdate \/ CallUpdateAgain

SpecUpdate == InitUpdate /\ [][NextUpdate]_vars

----------------------------------------------------------------------------
(* Properties of update_file *)

\* the match and the years of the text given to the first call
Match0 == search(pattern, content)
Years0 == extract(pattern, content)

AllIn(t, class) == \A k \in 1..Len(t) : t[k] \in class

\* t is <digits> or <digits><spaces>-<spaces><digits>
YearOrRangeText(t) ==
    \/ Len(t) > 0 /\ AllIn(t, Digits)
    \/ \E a, b, c \in 1..Len(t) :
          /\ a < b /\ b <= c /\ c < Len(t)
          /\ AllIn(Slice(t, 0, a), Digits)
          /\ AllIn(Slice(t, a, b - 1), Spaces)
          /\ t[b] = "-"
          /\ AllIn(Slice(t, b, c), Spaces)
          /\ AllIn(Slice(t, c, Len(t)), Digits)

\* some part of s reads <prefix><spaces><year or range><spaces><suffix>
HasHeader(regexp, s) ==
    \E i, a, b, w \in 0..Len(s) :
        /\ i + Len(regexp.prefix) <= a /\ a < b /\ b <= w
        /\ LiteralAt(s, i, regexp.prefix)
        /\ AllIn(Slice(s, i + Len(regexp.prefix), a), Spaces)
        /\ YearOrRangeText(Slice(s, a, b))
        /\ AllIn(Slice(s, b, w), Spaces)
        /\ LiteralAt(s, w, regexp.suffix)

C4_RangeDecision ==
    (/\ pc # "text"
     /\ Years0.kind = "tuple"
     /\ Years0.from # Years0.to)
    => IF Years0.to = last_year
          THEN result1 = Returned(None, content)
          ELSE /\ result1.error_comment = ExpectedActual(last_year, Years0.to)
               /\ result1.content = Slice(content, 0, Match0.to_start) \o current_year
                                     \o Slice(content, Match0.to_end, Len(content))
               /\ extract(pattern, result1.content) = YearTuple(Years0.from, current_year)

\* a correct range with a lower bound that is not the expected year, and a
\* range whose upper bound was rewritten
C4_WitnessCorrect ==
    /\ pc = "once"
    /\ Years0.kind = "tuple" /\ Years0.from # Years0.to
    /\ Years0.to = last_year /\ Years0.from # last_year
    /\ result1 = Returned(None, content)

C4_Witness ==
    /\ pc = "once"
    /\ Years0.kind = "tuple" /\ Years0.from # Years0.to
    /\ Years0.to # last_year /\ Years0.to # current_year
    /\ last_year # current_year
    /\ result1.content # content

\* C5: for a matched range with from = to, update_file always returns
\* 'range syntax is used for a single year', also when to = lastChangeYear;
\* the range is replaced by currentYear alone when from = currentYear, and
\* becomes (from, currentYear) otherwise.
C5_DegenerateRange ==
    (/\ pc # "text"
     /\ Years0.kind = "tuple"
     /\ Years0.from = Years0.to)
    => /\ result1.error_comment = RANGE_USED_FOR_A_SINGLE_YEAR
       /\ IF Years0.from = current_year
             THEN result1.content = Slice(content, 0, Match0.from_start) \o current_year
                                     \o Slice(content, Match0.to_end, Len(content))
             ELSE /\ result1.content = Slice(content, 0, Match0.to_start) \o current_year
                                        \o Slice(content, Match0.to_end, Len(content))
                  /\ extract(pattern, result1.content) = YearTuple(Years0.from, current_year)

\* a degenerate range of the expected year, reported all the same
C5_Witness ==
    /\ pc = "once"
    /\ Years0.kind = "tuple" /\ Years0.from = Years0.to
    /\ Years0.to = last_year
    /\ result1.error_comment = RANGE_USED_FOR_A_SINGLE_YEAR

\* C6: for a matched single year y, update_file returns no diagnostic and the
\* content unchanged exactly when y = lastChangeYear; otherwise it returns a
\* mismatch diagnostic and the year becomes y-currentYear.
C6_SingleYear ==
    (pc # "text" /\ Years0.kind = "str")
    => IF Years0.year = last_year
          THEN result1 = Returned(None, content)
          ELSE /\ result1.error_comment = ExpectedActual(last_year, Years0.year)
               /\ result1.content = Slice(content, 0, Match0.end) \o <<"-">> \o current_year
                                     \o Slice(content, Match0.end, Len(content))
               /\ extract(pattern, result1.content) = YearTuple(Years0.year, current_year)

\* a single year that is not the expected one, made a range
C6_Witness ==
    /\ pc = "once"
    /\ Years0.kind = "str"
    /\ Years0.year # last_year /\ last_year # current_year
    /\ extract(pattern, result1.content) = YearTuple(Years0.year, current_year)

\* C7: a text in which the pattern has no match: extract returns None, and
\* update_file returns the content unchanged, with 'no copyright comment
\* found' when `required` is set and no diagnostic when it is not.
C7_NoMatch ==
    (pc # "text" /\ ~HasHeader(pattern, content))
    => /\ extract(pattern, content) = None
       /\ result1 = Returned(IF required THEN NO_COPYRIGHT_HEADER_FOUND ELSE None,
                             content)

\* a text with digits but no header, not required: nothing is reported
C7_Witness ==
    /\ pc = "once"
    /\ ~HasHeader(pattern, content)
    /\ \E k \in 1..Len(content) : content[k] \in Digits
    /\ ~required
    /\ result1 = Returned(None, content)

----------------------------------------------------------------------------
(* GitChangeSet built from a list of change records *)

Paths == {"a", "b"}

\* the lines of a name-status listing, split at the tabs
Records ==
    {<<t, dst>> : t \in {"M", "D"}, dst \in Paths}
    \cup {<<t, src, dst>> : t \in {"C075", "R100", "R075"}, src \in Paths, dst \in Paths}

InitChangeSet ==
    /\ pc = "records"
    /\ items = <<>> /\ changes = NoChanges
    /\ UpdateIdle /\ HistoryIdle /\ RunIdle

\* one more record in the list
AddRecord ==
    /\ pc = "records"
    /\ Len(items) < MaxItems
    /\ \E item \in Records : items' = Append(items, item)
    /\ UNCHANGED <<pc, changes, updateVars, historyVars, worldVars, runVars>>

\* GitChangeSet(items)
Construct ==
    /\ pc = "records"
    /\ changes' = GitChangeSet(items)
    /\ pc' = "built"
    /\ UNCHANGED <<items, updateVars, historyVars, worldVars, runVars>>

NextChangeSet == AddRecord \/ Construct

SpecChangeSet == InitChangeSet /\ [][NextChangeSet]_vars

\* the destinations of moved_files
MovedDestinations(cs) == {cs.moved_files[k][2] : k \in 1..Len(cs.moved_files)}

\* C8, as stated: changed_files is a subset of touched_files; the destination
\* of an R100 record is in moved_files and not in changed_files; the
\* destination of a record with another R code is in both; every record's
\* destination is in touched_files.
C8_ChangeSetInvariant ==
    pc = "built" =>
        /\ changes.changed_files \subseteq changes.touched_files
        /\ \A k \in 1..Len(items) :
              LET item == items[k] IN
              /\ dst_of(item) \in changes.touched_files
              /\ change_type_of(item) = "R100" =>
                    /\ dst_of(item) \in MovedDestinations(changes)
                    /\ dst_of(item) \notin changes.changed_files
              /\ (startswith_R(change_type_of(item)) /\ change_type_of(item) # "R100") =>
                    /\ dst_of(item) \in MovedDestinations(changes)
                    /\ dst_of(item) \in changes.changed_files

\* C8, amended: as stated, except that the destination of an R100 record is
\* in changed_files exactly when another record of the list, with a code
\* other than R100, has the same destination.
C8_ChangeSetInvariantPerRecord ==
    pc = "built" =>
        /\ changes.changed_files \subseteq changes.touched_files
        /\ \A k \in 1..Len(items) :
              LET item == items[k] IN
              /\ dst_of(item) \in changes.touched_files
              /\ change_type_of(item) = "R100" =>
                    /\ <<item[2], dst_of(item)>> = changes.moved_files[
                          Cardinality({j \in 1..k : startswith_R(change_type_of(items[j]))})]
                    /\ dst_of(item) \in changes.changed_files
                          <=> \E j \in 1..Len(items) :
                                 /\ dst_of(items[j]) = dst_of(item)
                                 /\ change_type_of(items[j]) # "R100"
              /\ (startswith_R(change_type_of(item)) /\ change_type_of(item) # "R100") =>
                    /\ dst_of(item) \in MovedDestinations(changes)
                    /\ dst_of(item) \in changes.changed_files

\* a pure rename alone in its list: moved, touched, not changed
C8_Witness ==
    /\ pc = "built"
    /\ \E k \in 1..Len(items) : change_type_of(items[k]) = "R100"
    /\ \E k \in 1..Len(items) : change_type_of(items[k]) = "R075"
    /\ Len(changes.moved_files) = 2
    /\ Cardinality(changes.changed_files) = 1
    /\ changes.touched_files # changes.changed_files

----------------------------------------------------------------------------
(* compute_last_modified_dict on a log *)

HistoryDates == {Datetime(11, 1), Datetime(12, 1)}

\* the records of the log: modifications and renames
HistoryRecords ==
    {<<"M", dst>> : dst \in Paths}
    \cup {r \in {<<t, src, dst>> : t \in {"R100", "R075"}, src \in Paths, dst \in Paths} :
             r[2] # r[3]}

RECURSIVE RecordsIn(_)
RecordsIn(cms) ==
    IF cms = <<>> THEN 0 ELSE Len(Head(cms).changes.items) + RecordsIn(Tail(cms))

InitHistory ==
    /\ pc = "log"
    /\ commits = <<>> /\ replayed = 0 /\ last_modified_dict = EmptyDict
    /\ UpdateIdle /\ ChangeSetIdle /\ RunIdle

\* GitRepository.commits: the next block of the log, an older commit
LogCommit ==
    /\ pc = "log"
    /\ Len(commits) < MaxCommits
    /\ \E d \in HistoryDates :
          commits' = Append(commits, GitCommitInfo(d, GitChangeSet(<<>>)))
    /\ UNCHANGED <<pc, replayed, last_modified_dict, updateVars, changeSetVars, worldVars, runVars>>

\* GitRepository.commits: one more change line in the block being read
LogRecord ==
    /\ pc = "log"
    /\ commits # <<>>
    /\ RecordsIn(commits) < MaxRecords
    /\ \E item \in HistoryRecords :
          LET last == commits[Len(commits)] IN
          commits' = [commits EXCEPT ![Len(commits)] =
                         GitCommitInfo(last.author_date,
                                       GitChangeSet(Append(last.changes.items, item)))]
    /\ UNCHANGED <<pc, replayed, last_modified_dict, updateVars, changeSetVars, worldVars, runVars>>

\* compute_last_modified_dict(commits): the call
CallCompute ==
    /\ pc = "log"
    /\ pc' = "replay"
    /\ replayed' = 0
    /\ last_modified_dict' = EmptyDict
    /\ UNCHANGED <<commits, updateVars, changeSetVars, worldVars, runVars>>

\* one turn of the loop over reversed(commits)
ReplayCommit ==
    /\ pc = "replay"
    /\ replayed < Len(commits)
    /\ last_modified_dict' =
          replay_commit(last_modified_dict, nth_reversed(commits, replayed + 1))
    /\ replayed' = replayed + 1
    /\ UNCHANGED <<pc, commits, updateVars, changeSetVars, worldVars, runVars>>

\* return last_modified_dict
ReturnDict ==
    /\ pc = "replay"
    /\ replayed = Len(commits)
    /\ pc' = "returned"
    /\ UNCHANGED <<commits, replayed, last_modified_dict, updateVars, changeSetVars, worldVars, runVars>>

NextHistory == LogCommit \/ LogRecord \/ CallCompute \/ ReplayCommit \/ ReturnDict

SpecHistory == InitHistory /\ [][NextHistory]_vars

\* C2: when the commit just replayed renames A to B and A had an entry before
\* it, B's entry is the value A had before that commit if B is not in the
\* commit's changed_files, and the commit's own timestamp if it is.
C2_RenamePropagation ==
    [][ (pc = "replay" /\ replayed' = replayed + 1) =>
          LET commit == nth_reversed(commits, replayed') IN
          \A k \in 1..Len(commit.changes.moved_files) :
             LET A == commit.changes.moved_files[k][1]
                 B == commit.changes.moved_files[k][2]
             IN  A \in DOMAIN last_modified_dict =>
                    IF B \in commit.changes.changed_files
                       THEN get(last_modified_dict', B) = commit.author_date
                       ELSE get(last_modified_dict', B) = last_modified_dict[A]
      ]_vars

\* the commit at list position k moves a source that has an entry onto p
MovesIndexedOnto(k, p) ==
    LET before == replay_first(commits, Len(commits) - k)
        moved == commits[k].changes.moved_files
    IN  \E j \in 1..Len(moved) :
           /\ moved[j][2] = p
           /\ moved[j][1] \in DOMAIN propagate_moves(before, SubSeq(moved, 1, j - 1))

\* C3: if c is the first commit of the list (the newest) whose changed_files
\* holds p, and no commit before c in the list moves a source with an entry
\* onto p, the returned dictionary maps p to c's author date.
C3_LaterCommitsWin ==
    pc = "returned" =>
        \A p \in Paths :
           \A c \in 1..Len(commits) :
              (/\ p \in commits[c].changes.changed_files
               /\ \A k \in 1..(c - 1) : /\ p \notin commits[k].changes.changed_files
                                        /\ ~MovesIndexedOnto(k, p))
              => get(last_modified_dict, p) = commits[c].author_date

\* the newest change of p carries an earlier date than an older change of p
C3_Witness ==
    /\ pc = "returned"
    /\ \E p \in Paths : \E c, o \in 1..Len(commits) :
          /\ c < o
          /\ p \in commits[c].changes.changed_files
          /\ p \in commits[o].changes.changed_files
          /\ \A k \in 1..(c - 1) : /\ p \notin commits[k].changes.changed_files
                                   /\ ~MovesIndexedOnto(k, p)
          /\ lt(commits[c].author_date, commits[o].author_date)
          /\ get(last_modified_dict, p) = commits[c].author_date

----------------------------------------------------------------------------
(* copyright.py: run_copyright_updater *)

NO_FILES_TO_PROCESS == "no files to process"
NOT_STAGED == "file is not staged"
NOT_EXISTS == "file does not exist"
NOT_A_FILE == "file is not a regular file"
OUTSIDE_OF_REPOSITORY == "outside ot the repository"
NO_CONFIG_FOUND == "no configuration file found"
INVALID_CONFIGURATION == "invalid configuration"

\* FatalException(message, file)
FatalException(message, file) ==
    [kind |-> "FatalException", message |-> message, file |-> file]

\* return <value>
Return(value) == [kind |-> "return", value |-> value]

DecimalDigit == <<"0", "1", "2", "3", "4", "5", "6", "7", "8", "9">>

\* str(n) of a non-negative int
RECURSIVE str(_)
str(n) ==
    IF n < 10 THEN <<DecimalDigit[n + 1]>>
    ELSE str(n \div 10) \o <<DecimalDigit[(n % 10) + 1]>>

\* a slip: only the first file of the list is checked
validate_first_file_only(file_args, tree, staged_files) ==
    IF file_args = <<>> THEN None
    ELSE LET file_arg == Head(file_args) IN
         IF ~tree[file_arg].exists THEN FatalException(NOT_EXISTS, file_arg)
         ELSE IF ~tree[file_arg].is_file THEN FatalException(NOT_A_FILE, file_arg)
         ELSE IF ~tree[file_arg].inside THEN FatalException(OUTSIDE_OF_REPOSITORY, file_arg)
         ELSE IF file_arg \notin staged_files THEN FatalException(NOT_STAGED, file_arg)
         ELSE None

\* validate_and_resolve_files: the exception the first bad file raises, or None
RECURSIVE validate_and_resolve_files(_, _, _)
validate_and_resolve_files(file_args, tree, staged_files) ==
    IF file_args = <<>> THEN None
    ELSE LET file_arg == Head(file_args) IN
         IF ~tree[file_arg].exists THEN FatalException(NOT_EXISTS, file_arg)
         ELSE IF ~tree[file_arg].is_file THEN FatalException(NOT_A_FILE, file_arg)
         ELSE IF ~tree[file_arg].inside THEN FatalException(OUTSIDE_OF_REPOSITORY, file_arg)
         ELSE IF file_arg \notin staged_files THEN FatalException(NOT_STAGED, file_arg)
         ELSE validate_and_resolve_files(Tail(file_args), tree, staged_files)

\* find_config_path and CopyrightConfig.load_from_file: the exception the
\* configuration file raises, or None
load_config(config_file) ==
    IF config_file.kind = "no file" THEN FatalException(NO_CONFIG_FOUND, None)
    ELSE IF config_file.kind = "invalid"
       THEN FatalException(INVALID_CONFIGURATION, ".copyright-updater.yaml")
    ELSE None

\* a slip: the pseudo-commit for the staged changes goes last, as the oldest
commits_with_staged_appended(log, staged_changes, at) ==
    IF bool(staged_changes) THEN log \o <<GitCommitInfo(at, staged_changes)>> ELSE log

\* repo.commits(...), with the pseudo-commit for the staged changes in front
commits_with_staged(log, staged_changes, at) ==
    IF bool(staged_changes) THEN <<GitCommitInfo(at, staged_changes)>> \o log ELSE log

\* a slip: a file without an entry takes the date of the last commit
last_change_datetime_defaulted(rel_path, license_file, d, last_repo) ==
    IF rel_path # license_file /\ rel_path \in DOMAIN d THEN d[rel_path] ELSE last_repo

\* the loop body, "Determine last year when that file was changed"
last_change_datetime_of(rel_path, license_file, d, last_repo) ==
    IF rel_path # license_file THEN get(d, rel_path) ELSE last_repo

\* the loop body, "Ignore copyright year in too old files"
ignored(last_change_datetime, ignore_commits_before) ==
    \/ last_change_datetime = None
    \/ /\ ignore_commits_before # None
       /\ lt(last_change_datetime, ignore_commits_before)

\* a slip: `success = ...` for `success &= ...`
and_success_overwritten(ok, error_comment) == error_comment = None

\* success &= error_comment is None
and_success(ok, error_comment) == ok /\ error_comment = None

\* Path(full_path).write_text(content, "utf-8")
write_text(tree, path, text) ==
    [tree EXCEPT ![path] = [exists |-> TRUE, is_file |-> TRUE, inside |-> @.inside,
                            utf8 |-> TRUE, text |-> text]]

----------------------------------------------------------------------------
(* run_copyright_updater on a repository *)

RunPaths == {"a", "b", "LICENSE"}

RunPattern == YearsPattern(<<"c", placeholder>>)

Text(t) == [exists |-> TRUE, is_file |-> TRUE, inside |-> TRUE, utf8 |-> TRUE, text |-> t]
NotUtf8 ==
    [exists |-> TRUE, is_file |-> TRUE, inside |-> TRUE, utf8 |-> FALSE, text |-> <<>>]
Missing ==
    [exists |-> FALSE, is_file |-> FALSE, inside |-> TRUE, utf8 |-> FALSE, text |-> <<>>]
\* a directory of the repository
Directory ==
    [exists |-> TRUE, is_file |-> FALSE, inside |-> TRUE, utf8 |-> FALSE, text |-> <<>>]
\* a file in a directory that belongs to no repository
Outside(t) ==
    [exists |-> TRUE, is_file |-> TRUE, inside |-> FALSE, utf8 |-> TRUE, text |-> t]

\* no .copyright-updater.yaml, and one that CopyrightConfig rejects
NoConfigFile == [kind |-> "no file"]
InvalidConfigFile == [kind |-> "invalid"]
\* a configuration file that loads
ConfigFile(license_file, ignore_commits_before, regexp) ==
    [kind |-> "valid", license_file |-> license_file,
     ignore_commits_before |-> ignore_commits_before, pattern |-> regexp]

\* a header of 11, a header of 12, a text without a header, bytes that are
\* not UTF-8
FileStates == {Text(<<"c">> \o str(11) \o <<"x">>), Text(<<"c">> \o str(12)),
               Text(<<"x">>), NotUtf8}

\* what `git log --name-status` can list
RunCommits ==
    { GitCommitInfo(Datetime(11, 1), GitChangeSet(<< <<"M", "a">>, <<"M", "LICENSE">> >>)),
      GitCommitInfo(Datetime(12, 1), GitChangeSet(<< <<"M", "b">> >>)),
      GitCommitInfo(Datetime(12, 1), GitChangeSet(<< <<"R100", "a", "b">> >>)) }

\* what `git diff --name-status --cached` can list
StagedItems == { <<>>, << <<"M", "a">> >>, << <<"R100", "a", "b">> >> }

RECURSIVE SeqsUpTo(_, _)
SeqsUpTo(S, n) ==
    IF n = 0 THEN {<<>>}
    ELSE LET shorter == SeqsUpTo(S, n - 1)
         IN  shorter \cup {Append(q, x) : q \in shorter, x \in S}

\* the working tree: the files a and b as given, and the license file
Tree(sa, sb) ==
    [p \in RunPaths |-> IF p = "a" THEN sa
                        ELSE IF p = "b" THEN sb
                        ELSE Text(<<"c">> \o str(11))]

\* runs on a repository with a configuration that loads
UsualRun ==
    /\ args \in [files : SeqsUpTo(RunPaths, MaxFiles), required : BOOLEAN, dry_run : BOOLEAN]
    /\ repo \in [log : SeqsUpTo(RunCommits, MaxLog),
                 staged_changes : {GitChangeSet(its) : its \in StagedItems},
                 staged_files : {RunPaths, RunPaths \ {"b"}}]
    /\ config \in {ConfigFile("LICENSE", since, RunPattern) :
                      since \in {None, Datetime(12, 1)}}
    /\ fs \in {Tree(sa, sb) : sa \in FileStates,
                              sb \in {Text(<<"c">> \o str(12)), Missing}}

\* runs where b may be a directory or lie outside of the repository, and the
\* configuration file may be missing or invalid; a is staged with a header of
\* the year before
UnusualRun ==
    /\ args \in [files : SeqsUpTo(RunPaths, MaxFiles), required : {FALSE},
                 dry_run : BOOLEAN]
    /\ repo \in [log : {<< GitCommitInfo(Datetime(11, 1), GitChangeSet(<< <<"M", "a">> >>)) >>},
                 staged_changes : {GitChangeSet(<< <<"M", "a">> >>)},
                 staged_files : {RunPaths}]
    /\ config \in {NoConfigFile, InvalidConfigFile, ConfigFile("LICENSE", None, RunPattern)}
    /\ fs \in {Tree(Text(<<"c">> \o str(11) \o <<"x">>), sb) :
                  sb \in {Directory, Outside(<<"c">> \o str(12)), Missing,
                          Text(<<"c">> \o str(12))}}

InitRun ==
    /\ pc = "start"
    /\ (UsualRun \/ UnusualRun)
    /\ now = Datetime(12, 2)
    /\ io = <<>> /\ files = <<>> /\ file_index = 0
    /\ last_repo_modification_datetime = None
    /\ success = TRUE /\ result = None
    /\ UpdateIdle /\ ChangeSetIdle /\ HistoryIdle

\* run_copyright_updater up to the loop over the files: the files are
\* validated, the commits read and the dictionary computed
Start ==
    /\ pc = "start"
    /\ LET invalid == validate_and_resolve_files(args.files, fs, repo.staged_files)
           not_loaded == load_config(config)
           all_commits == commits_with_staged(repo.log, repo.staged_changes, now)
       IN  IF args.files = <<>>
              THEN /\ pc' = "raised"
                   /\ result' = FatalException(NO_FILES_TO_PROCESS, None)
                   /\ UNCHANGED <<files, commits, last_modified_dict,
                                  last_repo_modification_datetime>>
           ELSE IF ~fs[args.files[1]].inside
              THEN /\ pc' = "raised"
                   /\ result' = FatalException(OUTSIDE_OF_REPOSITORY, args.files[1])
                   /\ UNCHANGED <<files, commits, last_modified_dict,
                                  last_repo_modification_datetime>>
           ELSE IF invalid # None
              THEN /\ pc' = "raised"
                   /\ result' = invalid
                   /\ UNCHANGED <<files, commits, last_modified_dict,
                                  last_repo_modification_datetime>>
           ELSE IF not_loaded # None
              THEN /\ pc' = "raised"
                   /\ result' = not_loaded
                   /\ files' = args.files
                   /\ UNCHANGED <<commits, last_modified_dict,
                                  last_repo_modification_datetime>>
           ELSE IF all_commits = <<>>
              THEN /\ pc' = "returned"
                   /\ result' = Return(FALSE)
                   /\ files' = args.files
                   /\ commits' = all_commits
                   /\ UNCHANGED <<last_modified_dict, last_repo_modification_datetime>>
           ELSE /\ pc' = "loop"
                /\ files' = args.files
                /\ commits' = all_commits
                /\ last_repo_modification_datetime' = all_commits[1].author_date
                /\ last_modified_dict' = compute_last_modified_dict(all_commits)
                /\ UNCHANGED result
    /\ UNCHANGED <<fs, io, file_index, success, replayed,
                   updateVars, changeSetVars, worldVars>>

\* one turn of the loop over the files
ProcessFile ==
    /\ pc = "loop"
    /\ file_index < Len(files)
    /\ file_index' = file_index + 1
    /\ LET rel_path == files[file_index + 1]
           last_change_datetime ==
               last_change_datetime_of(rel_path, config.license_file,
                                       last_modified_dict, last_repo_modification_datetime)
       IN  IF ignored(last_change_datetime, config.ignore_commits_before)
              THEN UNCHANGED <<fs, io, success>>
           ELSE IF ~fs[rel_path].utf8
              THEN /\ io' = Append(io, <<"read", rel_path>>)
                   /\ UNCHANGED <<fs, success>>
           ELSE LET returned == update_file(fs[rel_path].text,
                                            str(last_change_datetime.year),
                                            config.pattern, str(now.year), args.required)
                    error_comment == returned.error_comment
                IN  /\ success' = and_success(success, error_comment)
                    /\ IF error_comment = None
                          THEN /\ io' = Append(io, <<"read", rel_path>>)
                               /\ UNCHANGED fs
                       ELSE IF args.dry_run
                          THEN /\ io' = io \o << <<"read", rel_path>>,
                                                 <<"print", rel_path>> >>
                               /\ UNCHANGED fs
                       ELSE /\ io' = io \o << <<"read", rel_path>>, <<"print", rel_path>>,
                                              <<"write", rel_path>> >>
                            /\ fs' = write_text(fs, rel_path, returned.content)
    /\ UNCHANGED <<pc, files, last_repo_modification_datetime, result,
                   updateVars, changeSetVars, historyVars, worldVars>>

\* return not success
ReturnFailed ==
    /\ pc = "loop"
    /\ file_index = Len(files)
    /\ pc' = "returned"
    /\ result' = Return(~success)
    /\ UNCHANGED <<fs, io, files, file_index, last_repo_modification_datetime, success,
                   updateVars, changeSetVars, historyVars, worldVars>>

NextRun == Start \/ ProcessFile \/ ReturnFailed

SpecRun == InitRun /\ [][NextRun]_vars

----------------------------------------------------------------------------
(* Properties of run_copyright_updater *)

\* the paths of the entries of a piece of the io log
PathsOf(entries) == {entries[k][2] : k \in 1..Len(entries)}

\* a diagnostic was printed
Printed(entries) == \E k \in 1..Len(entries) : entries[k][1] = "print"

\* C9: a turn of the loop on a file that has no entry in the dictionary and
\* is not the license file reads nothing, prints nothing, writes nothing and
\* leaves `success` as it was.
C9_UnknownFileSkipped ==
    [][ (/\ pc = "loop"
         /\ file_index' = file_index + 1
         /\ files[file_index + 1] \notin DOMAIN last_modified_dict
         /\ files[file_index + 1] # config.license_file)
        => (fs' = fs /\ io' = io /\ success' = success /\ pc' = "loop")
      ]_vars

\* a run that reported another file has been through a file without an entry
\* whose header it would have reported
C9_Witness ==
    /\ pc = "returned"
    /\ result = Return(TRUE)
    /\ \E k \in 1..Len(files) :
          /\ files[k] \notin DOMAIN last_modified_dict
          /\ files[k] # config.license_file
          /\ fs[files[k]].utf8
          /\ extract(config.pattern, fs[files[k]].text) = YearStr(str(11))
          /\ files[k] \notin PathsOf(io)

\* C10: a turn of the loop, with or without a diagnostic, goes on to the next
\* file of the list and touches that file only; the loop is left after the
\* last file, and the value returned is True exactly when a diagnostic was
\* printed.
C10_DiagnosticsDoNotStop ==
    [][ /\ (pc = "loop" /\ file_index < Len(files)) =>
              /\ pc' = "loop" /\ files' = files
              /\ file_index' = file_index + 1
              /\ \E entries \in SeqsUpTo({<<op, files[file_index + 1]>> :
                                            op \in {"read", "print", "write"}}, 3) :
                    io' = io \o entries
              /\ success' = (success /\ ~Printed(SubSeq(io', Len(io) + 1, Len(io'))))
        /\ (pc = "loop" /\ pc' = "returned") => file_index = Len(files)
        /\ pc' = "returned" => result' = Return(Printed(io'))
      ]_vars

\* the first of two files was reported, the second was read and found
\* correct, and the run failed
C10_Witness ==
    /\ pc = "returned"
    /\ Len(files) = 2
    /\ result = Return(TRUE)
    /\ \E k \in 1..Len(io) :
          /\ io[k] = <<"print", files[1]>>
          /\ \E j \in (k + 1)..Len(io) : io[j] = <<"read", files[2]>>
    /\ <<"print", files[2]>> \notin {io[k] : k \in 1..Len(io)}

----------------------------------------------------------------------------
(* Properties of the staged changes in run_copyright_updater *)

\* the turn of the loop just taken read a text and reported it exactly when
\* update_file, called with the year of `date`, returns a diagnostic
CheckedAgainst(p, date) ==
    /\ fs[p].utf8
    /\ <<"read", p>> \in {io'[k] : k \in (Len(io) + 1)..Len(io')}
    /\ Printed(SubSeq(io', Len(io) + 1, Len(io')))
          <=> update_file(fs[p].text, str(date.year), config.pattern,
                          str(now.year), args.required).error_comment # None

\* the dictionary of the committed history alone
CommittedDict == compute_last_modified_dict(repo.log)

\* C11: with staged changes, the commits replayed are the pseudo-commit dated
\* `now` followed by the committed ones; a turn of the loop on a readable path
\* of the staged changed_files checks the header against the year of `now`,
\* whatever the committed history says; a turn on the destination of a staged
\* R100 move whose source has a committed date that is not ignored checks the
\* header against the year of that date.
C11_StagedIsNewest ==
    [][ (pc = "loop" /\ file_index' = file_index + 1 /\ bool(repo.staged_changes)) =>
          LET p == files[file_index + 1]
              staged == repo.staged_changes
          IN  /\ commits = <<GitCommitInfo(now, staged)>> \o repo.log
              /\ (p \in staged.changed_files /\ fs[p].utf8) => CheckedAgainst(p, now)
              /\ \A k \in 1..Len(staged.moved_files) :
                    LET src == staged.moved_files[k][1]
                        dst == staged.moved_files[k][2]
                    IN  (/\ p = dst /\ dst \notin staged.changed_files
                         /\ dst # config.license_file
                         /\ fs[p].utf8
                         /\ src \in DOMAIN CommittedDict
                         /\ ~ignored(CommittedDict[src], config.ignore_commits_before))
                        => CheckedAgainst(p, CommittedDict[src])
      ]_vars

\* a file committed in year 11 and carrying a header of 11 has staged
\* changes, and the run has reported it
C11_Witness ==
    /\ pc = "returned"
    /\ \E p \in repo.staged_changes.changed_files :
          /\ p \in DOMAIN CommittedDict
          /\ CommittedDict[p].year = 11
          /\ now.year = 12
          /\ args.dry_run
          /\ extract(config.pattern, fs[p].text) = YearStr(str(11))
          /\ \E k \in 1..Len(io) : io[k] = <<"print", p>>

\* the destination of a staged R100 move has been reported for carrying the
\* year of `now` where its source was committed the year before
C11_WitnessRename ==
    /\ pc = "returned"
    /\ args.dry_run
    /\ \E k \in 1..Len(repo.staged_changes.moved_files) :
          LET src == repo.staged_changes.moved_files[k][1]
              dst == repo.staged_changes.moved_files[k][2]
          IN  /\ dst \notin repo.staged_changes.changed_files
              /\ src \in DOMAIN CommittedDict
              /\ CommittedDict[src].year = 11
              /\ extract(config.pattern, fs[dst].text) = YearStr(str(now.year))
              /\ \E j \in 1..Len(io) : io[j] = <<"print", dst>>

----------------------------------------------------------------------------
(* YearsPattern.replace on a text *)

\* raise ValueError("no copyright years in content")
ValueError == [kind |-> "ValueError"]

\* the values replace is given: a pair of years or one year
NewRanges ==
    {YearTuple(f, t) : f \in YearStrings, t \in YearStrings}
        \cup {YearStr(y) : y \in YearStrings}

InitReplace ==
    /\ pc = "text"
    /\ content = <<>>
    /\ pattern \in {YearsPattern(t) : t \in Templates}
    /\ last_year = <<>> /\ current_year = <<>> /\ required = FALSE
    /\ result1 = NotCalled /\ result2 = NotCalled
    /\ given_range = None /\ replaced = None
    /\ ChangeSetIdle /\ HistoryIdle /\ RunIdle

\* pattern.replace(content, new_range)
CallReplace ==
    /\ pc = "text"
    /\ \E r \in NewRanges :
          /\ given_range' = r
          /\ replaced' = IF search(pattern, content).found
                            THEN Return(replace(pattern, content, r))
                            ELSE ValueError
    /\ pc' = "replaced"
    /\ UNCHANGED <<content, pattern, last_year, current_year, required, result1, result2,
                   changeSetVars, historyVars, worldVars, runVars>>

NextReplace == TypeChar \/ CallReplace

SpecReplace == InitReplace /\ [][NextReplace]_vars

\* t is <spaces>-<spaces>
SeparatorText(t) ==
    \E b \in 1..Len(t) :
        /\ t[b] = "-"
        /\ AllIn(Slice(t, 0, b - 1), Spaces)
        /\ AllIn(Slice(t, b, Len(t)), Spaces)

\* C12: replace on a text whose match is a range, given a pair, returns the
\* text before the from-span, the new from, the text between the two spans
\* (spaces, a hyphen, spaces), the new to, and the text after the to-span,
\* all taken from the text as it was given.
C12_ReplaceRangeByPair ==
    (/\ pc = "replaced"
     /\ Match0.found /\ Match0.range
     /\ given_range.kind = "tuple")
    => LET before == Slice(content, 0, Match0.from_start)
           separator == Slice(content, Match0.from_end, Match0.to_start)
           after == Slice(content, Match0.to_end, Len(content))
       IN  /\ content = before \o Years0.from \o separator \o Years0.to \o after
           /\ SeparatorText(separator)
           /\ replaced = Return(before \o given_range.from \o separator
                                \o given_range.to \o after)

\* both years of a range were replaced by longer ones, in front of text that
\* stays
C12_Witness ==
    /\ pc = "replaced"
    /\ Match0.found /\ Match0.range
    /\ given_range.kind = "tuple"
    /\ Len(given_range.from) > Len(Years0.from)
    /\ Len(given_range.to) > Len(Years0.to)
    /\ Match0.to_end < Len(content)
    /\ replaced.kind = "return"
    /\ Len(replaced.value) = Len(content) + 2

----------------------------------------------------------------------------
(* Properties of compute_last_modified_dict: moves of a source without an entry *)

\* the dictionary the loop holds when it comes to the commit at list position c
DictBefore(c) == replay_first(commits, Len(commits) - c)

\* the commit at list position c or a newer one has p in its changed_files
ChangedSince(c, p) == \E k \in 1..c : p \in commits[k].changes.changed_files

\* C13, as stated: when the commit at list position c moves src to dst, src
\* has no entry when the loop comes to that commit, and dst is in the
\* changed_files of neither that commit nor a newer one, the returned
\* dictionary has no entry for dst.
C13_UnknownSourceLeavesAbsent ==
    pc = "returned" =>
        \A c \in 1..Len(commits) :
           \A k \in 1..Len(commits[c].changes.moved_files) :
              LET src == commits[c].changes.moved_files[k][1]
                  dst == commits[c].changes.moved_files[k][2]
              IN  (/\ src \notin DOMAIN DictBefore(c)
                   /\ ~ChangedSince(c, dst))
                  => dst \notin DOMAIN last_modified_dict

\* C13, amended: when moreover dst has no entry when the loop comes to that
\* commit, and no move of that commit or of a newer one finds an entry at its
\* source to copy onto dst, the returned dictionary has no entry for dst.
C13_UnknownSourceLeavesAbsentUnlessCopied ==
    pc = "returned" =>
        \A c \in 1..Len(commits) :
           \A k \in 1..Len(commits[c].changes.moved_files) :
              LET src == commits[c].changes.moved_files[k][1]
                  dst == commits[c].changes.moved_files[k][2]
              IN  (/\ src \notin DOMAIN DictBefore(c)
                   /\ dst \notin DOMAIN DictBefore(c)
                   /\ ~ChangedSince(c, dst)
                   /\ \A n \in 1..c : ~MovesIndexedOnto(n, dst))
                  => dst \notin DOMAIN last_modified_dict

\* a move of a source without an entry left its destination out of the
\* dictionary, which a newer commit gave an entry for the source
C13_Witness ==
    /\ pc = "returned"
    /\ \E c \in 2..Len(commits) :
          \E k \in 1..Len(commits[c].changes.moved_files) :
             LET src == commits[c].changes.moved_files[k][1]
                 dst == commits[c].changes.moved_files[k][2]
             IN  /\ src \notin DOMAIN DictBefore(c)
                 /\ ~ChangedSince(c, dst)
                 /\ dst \notin DOMAIN last_modified_dict
                 /\ src \in DOMAIN last_modified_dict

----------------------------------------------------------------------------
(* Properties of the fatal aborts of run_copyright_updater *)

\* the messages of the aborts the inputs cause
InputFaultMessages ==
    {NO_FILES_TO_PROCESS, NOT_EXISTS, NOT_A_FILE, OUTSIDE_OF_REPOSITORY, NOT_STAGED,
     NO_CONFIG_FOUND, INVALID_CONFIGURATION}

\* the command line names no file, or a file that is missing, not a regular
\* file, outside of the repository or not staged, or the configuration file
\* is missing or invalid
InputFault ==
    \/ args.files = <<>>
    \/ \E k \in 1..Len(args.files) :
          LET file_arg == fs[args.files[k]]
          IN  \/ ~file_arg.exists \/ ~file_arg.is_file \/ ~file_arg.inside
              \/ args.files[k] \notin repo.staged_files
    \/ config.kind # "valid"

\* C14: a run whose inputs have such a fault never enters the loop over the
\* files: it ends with a FatalException carrying one of the messages, having
\* read, printed and written nothing; and a run raises in no other case.
C14_FatalBeforeLoop ==
    /\ InputFault =>
          /\ pc \in {"start", "raised"}
          /\ io = <<>> /\ file_index = 0
    /\ pc = "raised" =>
          /\ InputFault
          /\ result.kind = "FatalException"
          /\ result.message \in InputFaultMessages

\* the first file is valid, staged and carries the header of the year before;
\* the second does not exist; the run has raised and the first file is as it
\* was
C14_Witness ==
    /\ pc = "raised"
    /\ ~args.dry_run
    /\ Len(args.files) = 2
    /\ args.files[1] \in repo.staged_changes.changed_files
    /\ fs[args.files[1]].utf8
    /\ extract(RunPattern, fs[args.files[1]].text) = YearStr(str(now.year - 1))
    /\ ~fs[args.files[2]].exists
    /\ result.message = NOT_EXISTS
    /\ io = <<>>

====
